---- MODULE Spec2Model ----
(***************************************************************************)
(* Model of the VQA v2 loading script, src/Dataset/VQAv2.py.               *)
(*                                                                         *)
(* One pass of VQAv2Dataset._generate_examples over one split is a state   *)
(* machine: _split_generators derives the path arguments of the split      *)
(* (SplitGenerators), the generator loads the files and builds the         *)
(* annotation mapping (Load), then runs one loop iteration per step (StepJoin in the  *)
(* branch with annotations, StepPlain in the branch without), and ends     *)
(* either exhausted (Finish) or with an uncaught exception.                *)
(*                                                                         *)
(* Representation of the values of the program:                            *)
(*   - a JSON object (Python dict) is a function from field names to       *)
(*     values; its key set is its DOMAIN;                                  *)
(*   - question_id is an integer;                                          *)
(*   - image_id is an arbitrary-precision Python int, kept as its sequence *)
(*     of base-10 limbs, most significant first, without leading zeros     *)
(*     (TLC integers stop at 2^31-1, image_id is declared int64);          *)
(*   - the string-valued fields and the answers list are opaque tokens;    *)
(*     None is a token that no file content uses;                          *)
(*   - a pathlib.Path is the sequence of its components, and an optional   *)
(*     path that is None is the record [isNone |-> TRUE];                  *)
(*   - the image path string is kept as its directory components and the   *)
(*     sequence of the pieces of its file name (Render gives the text).    *)
(***************************************************************************)
EXTENDS Integers, Sequences, FiniteSets, TLC

VARIABLES split, kwargs, qfile, afile, pc, questions, qa, idx, out, err

vars == <<split, kwargs, qfile, afile, pc, questions, qa, idx, out, err>>

(***************************************************************************)
(* Bounds of the model.                                                    *)
(***************************************************************************)
MaxQuestions == 2
MaxAnnotations == 2

(***************************************************************************)
(* Resource locator: _URLS and _SUB_FOLDER_OR_FILE_NAME.                   *)
(***************************************************************************)
Splits == {"train", "val", "test-dev", "test"}

Kinds == {"questions", "annotations", "images"}

URLS ==
  [questions |->
     [s \in {"train", "val", "test-dev", "test"} |->
        CASE s = "train" -> "v2_Questions_Train_mscoco.zip"
          [] s = "val" -> "v2_Questions_Val_mscoco.zip"
          [] s = "test-dev" -> "v2_Questions_Test_mscoco.zip"
          [] s = "test" -> "v2_Questions_Test_mscoco.zip"],
   annotations |->
     [s \in {"train", "val"} |->
        CASE s = "train" -> "v2_Annotations_Train_mscoco.zip"
          [] s = "val" -> "v2_Annotations_Val_mscoco.zip"],
   images |->
     [s \in {"train", "val", "test-dev", "test"} |->
        CASE s = "train" -> "train2014.zip"
          [] s = "val" -> "val2014.zip"
          [] s = "test-dev" -> "test2015.zip"
          [] s = "test" -> "test2015.zip"]]

SUB_FOLDER_OR_FILE_NAME ==
  [questions |->
     [s \in {"train", "val", "test-dev", "test"} |->
        CASE s = "train" -> "v2_OpenEnded_mscoco_train2014_questions.json"
          [] s = "val" -> "v2_OpenEnded_mscoco_val2014_questions.json"
          [] s = "test-dev" -> "v2_OpenEnded_mscoco_test-dev2015_questions.json"
          [] s = "test" -> "v2_OpenEnded_mscoco_test2015_questions.json"],
   annotations |->
     [s \in {"train", "val"} |->
        CASE s = "train" -> "v2_mscoco_train2014_annotations.json"
          [] s = "val" -> "v2_mscoco_val2014_annotations.json"],
   images |->
     [s \in {"train", "val", "test-dev", "test"} |->
        CASE s = "train" -> "train2014"
          [] s = "val" -> "val2014"
          [] s = "test-dev" -> "test2015"
          [] s = "test" -> "test2015"]]

\* dl_manager.download_and_extract(_URLS): the same nested mapping, each URL
\* replaced by the local directory the archive was extracted to.
DownloadAndExtract(urls) ==
  [k \in DOMAIN urls |-> [s \in DOMAIN urls[k] |-> "extracted/" \o urls[k][s]]]

NonePath == [isNone |-> TRUE]

Path(parts) == [isNone |-> FALSE, parts |-> parts]

\* gen_kwargs[split_name]: one "<kind>_path" argument per kind, None when the
\* kind has no entry for the split.
GenKwargsKeyed(data_dir, split_name) ==
  [k \in DOMAIN URLS |->
     IF split_name \in DOMAIN data_dir[k]
       THEN Path(<<data_dir[k][split_name], SUB_FOLDER_OR_FILE_NAME[k][split_name]>>)
       ELSE NonePath]

GenKwargs(split_name) ==
  LET g == GenKwargsKeyed(DownloadAndExtract(URLS), split_name)
  IN [questions_path |-> g["questions"],
      annotations_path |-> g["annotations"],
      images_path |-> g["images"]]

(***************************************************************************)
(* Field sets and values.                                                  *)
(***************************************************************************)
QuestionKeys == {"image_id", "question", "question_id"}

AnnotationKeys ==
  {"question_type", "multiple_choice_answer", "answers", "image_id",
   "answer_type", "question_id"}

None == "<None>"

\* Variant: the answers key is left out.
NoAnnotationFieldsPartial ==
  [question_type |-> "<None>", multiple_choice_answer |-> "<None>",
   answer_type |-> "<None>"]

\* The dict passed to question.update in the branch without annotations.
NoAnnotationFields ==
  [question_type |-> None, multiple_choice_answer |-> None,
   answers |-> None, answer_type |-> None]

\* dict.update: the keys of e are added to d, overwriting equal keys.
Update(d, e) ==
  [k \in DOMAIN d \cup DOMAIN e |-> IF k \in DOMAIN e THEN e[k] ELSE d[k]]

\* d[k] = v on a dict.
SetItem(d, k, v) ==
  [j \in DOMAIN d \cup {k} |-> IF j = k THEN v ELSE d[j]]

(***************************************************************************)
(* Image path: str(images_path / f"COCO_{images_path.name}_{id:0>12}.jpg") *)
(***************************************************************************)
PadWidth == 12

DigitChar(d) ==
  CASE d = 0 -> "0" [] d = 1 -> "1" [] d = 2 -> "2" [] d = 3 -> "3"
    [] d = 4 -> "4" [] d = 5 -> "5" [] d = 6 -> "6" [] d = 7 -> "7"
    [] d = 8 -> "8" [] d = 9 -> "9"

\* str(int): the decimal text of an int, one character per base-10 limb.
Str(n) == [i \in 1..Len(n) |-> DigitChar(n[i])]

\* Variant: the fill goes on the right ("{fill}<{width}").
RECURSIVE PadRight(_, _, _)
PadRight(s, fill, width) ==
  IF Len(s) >= width THEN s ELSE PadRight(s \o <<fill>>, fill, width)

\* Format spec "{fill}>{width}": fill on the left up to the width; a text that
\* is already at least that wide is left as it is.
RECURSIVE PadLeft(_, _, _)
PadLeft(s, fill, width) ==
  IF Len(s) >= width THEN s ELSE PadLeft(<<fill>> \o s, fill, width)

\* pathlib.Path.name: the last component.
Name(path) == path.parts[Len(path.parts)]

ImageFileName(images_path, image_id) ==
  <<"COCO_", Name(images_path), "_">>
    \o PadLeft(Str(image_id), "0", PadWidth) \o <<".jpg">>

ImagePath(images_path, image_id) ==
  [dir |-> images_path.parts, file |-> ImageFileName(images_path, image_id)]

(***************************************************************************)
(* The question_id -> annotation mapping, lines 152-154.                   *)
(***************************************************************************)
\* The comprehension of line 152 reads ann["question_id"] of every entry.
BuildRaises(anns) ==
  \E j \in 1..Len(anns) : "question_id" \notin DOMAIN anns[j]

\* Variant: the entries are assigned from the last to the first.
RECURSIVE AssignAllReversed(_, _, _)
AssignAllReversed(m, anns, j) ==
  IF j > Len(anns) THEN m
  ELSE AssignAllReversed(
         [m EXCEPT ![anns[Len(anns) + 1 - j]["question_id"]] =
                       anns[Len(anns) + 1 - j]],
         anns, j + 1)

RECURSIVE AssignAll(_, _, _)
AssignAll(m, anns, j) ==
  IF j > Len(anns) THEN m
  ELSE AssignAll([m EXCEPT ![anns[j]["question_id"]] = anns[j]], anns, j + 1)

\* Variant: every key is bound to the annotation read last.
BuildQALateBinding(anns) ==
  [k \in {anns[j]["question_id"] : j \in 1..Len(anns)} |-> anns[Len(anns)]]

BuildQA(anns) ==
  AssignAll([k \in {anns[j]["question_id"] : j \in 1..Len(anns)} |-> <<>>],
            anns, 1)

(***************************************************************************)
(* One iteration of either loop.                                           *)
(***************************************************************************)
\* Variant: extra fields of the question are tolerated.
QuestionOkSuperset(question) == QuestionKeys \subseteq DOMAIN question

QuestionOk(question) == DOMAIN question = QuestionKeys

\* Variant: extra fields of the annotation are tolerated.
AnnotationOkSuperset(annotation) == AnnotationKeys \subseteq DOMAIN annotation

AnnotationOk(annotation) == DOMAIN annotation = AnnotationKeys

\* Variant: the loop stops one entry early.
HasNextOffByOne(qs, i) == i < Len(qs)

HasNext(qs, i) == i <= Len(qs)

\* Variant: the questions are visited from the last to the first.
CurrentQuestionReversed(qs, i) == qs[Len(qs) + 1 - i]

CurrentQuestion(qs, i) == qs[i]

Lookup(m, question) == m[question["question_id"]]

\* Variant: the field sets of the question are asserted before the lookup.
JoinRaisesAssertFirst(question, m) ==
  IF DOMAIN question # {"image_id", "question", "question_id"}
    THEN "AssertionError"
  ELSE IF question["question_id"] \notin DOMAIN m THEN "KeyError"
  ELSE IF DOMAIN m[question["question_id"]] #
            {"question_type", "multiple_choice_answer", "answers", "image_id",
             "answer_type", "question_id"}
    THEN "AssertionError"
  ELSE "none"

\* The exception an iteration of the loop of lines 156-188 ends with.
JoinRaises(question, m) ==
  IF "question_id" \notin DOMAIN question THEN "KeyError"
  ELSE IF question["question_id"] \notin DOMAIN m THEN "KeyError"
  ELSE IF ~QuestionOk(question) THEN "AssertionError"
  ELSE IF ~AnnotationOk(Lookup(m, question)) THEN "AssertionError"
  ELSE "none"

\* record = question; record.update(annotation); record["image"] = ...
JoinRecord(question, annotation, images_path) ==
  LET record == Update(question, annotation)
  IN SetItem(record, "image", ImagePath(images_path, record["image_id"]))

\* question.update({... None ...}) of lines 192-199.
PlainUpdated(question) == Update(question, NoAnnotationFields)

\* The exception an iteration of the loop of lines 191-204 ends with.
PlainRaises(question) ==
  IF "image_id" \notin DOMAIN PlainUpdated(question) THEN "KeyError"
  ELSE IF "question_id" \notin DOMAIN PlainUpdated(question) THEN "KeyError"
  ELSE "none"

PlainRecord(question, images_path) ==
  LET q == PlainUpdated(question)
  IN SetItem(q, "image", ImagePath(images_path, q["image_id"]))

\* The arguments before _split_generators has produced them.
NoKwargs ==
  [questions_path |-> NonePath, annotations_path |-> NonePath,
   images_path |-> NonePath]

\* annotations_path is not None (line 149).
Annotated == ~kwargs.annotations_path.isNone

(***************************************************************************)
(* Contents of the input files.                                            *)
(***************************************************************************)
QuestionIds == {1, 2}

QuestionTexts == {"What?", "Why?"}

Answers == {"a", "b"}

SeqsUpTo(S, n) == UNION {[1..k -> S] : k \in 0..n}

MkQuestion(qid, img, text) ==
  [question_id |-> qid, image_id |-> img, question |-> text]

MkAnnotation(qid, img, ans) ==
  [question_id |-> qid, image_id |-> img, question_type |-> "what",
   multiple_choice_answer |-> ans, answers |-> "answers of " \o ans,
   answer_type |-> "other"]

\* Questions entries: well-formed ones, ones with an undeclared extra field,
\* and ones without image_id.
QuestionEntries(imgs) ==
  {MkQuestion(qid, img, text) :
     qid \in QuestionIds, img \in imgs, text \in QuestionTexts}
  \cup {SetItem(MkQuestion(qid, img, "What?"), "extra", "x") :
          qid \in QuestionIds, img \in imgs}
  \cup {[question_id |-> qid, question |-> "What?"] : qid \in QuestionIds}

\* Annotations entries: well-formed ones, one with an extra field, one
\* without answer_type and one without question_id.
AnnotationEntries(imgs) ==
  {MkAnnotation(qid, img, ans) :
     qid \in QuestionIds, img \in imgs, ans \in Answers}
  \cup {SetItem(MkAnnotation(1, img, "a"), "extra", "x") : img \in imgs}
  \cup {[k \in AnnotationKeys \ {"answer_type"} |->
           MkAnnotation(2, img, "a")[k]] : img \in imgs}
  \cup {[k \in AnnotationKeys \ {"question_id"} |->
           MkAnnotation(1, img, "a")[k]] : img \in imgs}

\* image_id values of questions entries and of annotations entries: up to
\* 12 digits, and one int64 value of 13 digits.
QuestionImageIds ==
  {<<4, 2>>, <<1, 2, 3, 4, 5, 6, 7, 8, 9, 0, 1, 2>>,
   <<1, 2, 3, 4, 5, 6, 7, 8, 9, 0, 1, 2, 3>>}

AnnotationImageIds == {<<9>>, <<1, 2, 3, 4, 5, 6, 7, 8, 9, 0, 1, 2, 3>>}

(***************************************************************************)
(* The pass.                                                               *)
(***************************************************************************)
Start(s, qs, as) ==
  /\ split = s
  /\ kwargs = NoKwargs
  /\ qfile = qs
  /\ afile = as
  /\ pc = "new"
  /\ questions = <<>>
  /\ qa = <<>>
  /\ idx = 1
  /\ out = <<>>
  /\ err = "none"

\* Any split, any questions file, and an annotations file exactly for the
\* splits that have an annotations path.
Init ==
  \E s \in Splits :
    \E qs \in SeqsUpTo(QuestionEntries({<<9>>}), MaxQuestions) :
      \E as \in IF GenKwargs(s).annotations_path.isNone
                  THEN {<<>>}
                  ELSE SeqsUpTo(AnnotationEntries({<<9>>}), MaxAnnotations) :
        Start(s, qs, as)

\* Lines 114-144: the keyword arguments of the split's generator.
SplitGenerators ==
  /\ pc = "new"
  /\ kwargs' = GenKwargs(split)
  /\ pc' = "start"
  /\ UNCHANGED <<split, qfile, afile, questions, qa, idx, out, err>>

\* Lines 147-154: json.load of both files and construction of qa.
Load ==
  /\ pc = "start"
  /\ questions' = qfile
  /\ IF Annotated /\ BuildRaises(afile)
       THEN /\ pc' = "failed"
            /\ err' = "KeyError"
            /\ qa' = qa
       ELSE /\ pc' = "loop"
            /\ err' = err
            /\ qa' = IF Annotated THEN BuildQA(afile) ELSE qa
  /\ UNCHANGED <<split, kwargs, qfile, afile, idx, out>>

\* Lines 156-188: one iteration of the loop of the branch with annotations.
StepJoin ==
  /\ pc = "loop"
  /\ Annotated
  /\ HasNext(questions, idx)
  /\ LET question == CurrentQuestion(questions, idx)
         raised == JoinRaises(question, qa)
     IN IF raised # "none"
          THEN /\ pc' = "failed"
               /\ err' = raised
               /\ UNCHANGED <<questions, idx, out>>
          ELSE LET record == JoinRecord(question, Lookup(qa, question),
                                        kwargs.images_path)
               IN /\ questions' = [questions EXCEPT ![idx] = record]
                  /\ out' = Append(out, [key |-> record["question_id"],
                                         record |-> record])
                  /\ idx' = idx + 1
                  /\ UNCHANGED <<pc, err>>
  /\ UNCHANGED <<split, kwargs, qfile, afile, qa>>

\* Lines 191-204: one iteration of the loop of the branch without annotations.
StepPlain ==
  /\ pc = "loop"
  /\ ~Annotated
  /\ HasNext(questions, idx)
  /\ LET question == CurrentQuestion(questions, idx)
         raised == PlainRaises(question)
     IN IF raised # "none"
          THEN /\ pc' = "failed"
               /\ err' = raised
               /\ questions' = [questions EXCEPT ![idx] = PlainUpdated(question)]
               /\ UNCHANGED <<idx, out>>
          ELSE LET record == PlainRecord(question, kwargs.images_path)
               IN /\ questions' = [questions EXCEPT ![idx] = record]
                  /\ out' = Append(out, [key |-> record["question_id"],
                                         record |-> record])
                  /\ idx' = idx + 1
                  /\ UNCHANGED <<pc, err>>
  /\ UNCHANGED <<split, kwargs, qfile, afile, qa>>

\* The loop is exhausted: the generator returns.
Finish ==
  /\ pc = "loop"
  /\ ~HasNext(questions, idx)
  /\ pc' = "done"
  /\ UNCHANGED <<split, kwargs, qfile, afile, questions, qa, idx, out, err>>

Next == SplitGenerators \/ Load \/ StepJoin \/ StepPlain \/ Finish

Spec == Init /\ [][Next]_vars

\* Well-formed files whose image ids vary.
InitPath ==
  \E s \in Splits :
    \E qs \in SeqsUpTo({MkQuestion(qid, img, "What?") :
                          qid \in QuestionIds, img \in QuestionImageIds},
                       MaxQuestions) :
      \E as \in IF GenKwargs(s).annotations_path.isNone
                  THEN {<<>>}
                  ELSE SeqsUpTo({MkAnnotation(qid, img, "a") :
                                   qid \in QuestionIds,
                                   img \in AnnotationImageIds},
                                MaxAnnotations) :
        Start(s, qs, as)

SpecPath == InitPath /\ [][Next]_vars

TypeOK ==
  /\ split \in Splits
  /\ pc \in {"new", "start", "loop", "done", "failed"}
  /\ err \in {"none", "KeyError", "AssertionError"}
  /\ idx \in 1..(Len(qfile) + 1)

(***************************************************************************)
(* Vocabulary of the properties.                                           *)
(***************************************************************************)
AnnotationFields ==
  {"question_type", "multiple_choice_answer", "answers", "answer_type"}

\* The pass has built the mapping without raising.
Built == Annotated /\ pc \in {"loop", "done", "failed"} /\ ~BuildRaises(afile)

AnnIds == {afile[j]["question_id"] : j \in 1..Len(afile)}

\* Position in the annotations file of the last entry with question_id k.
LastIndex(k) ==
  CHOOSE j \in 1..Len(afile) :
    /\ afile[j]["question_id"] = k
    /\ \A l \in (j + 1)..Len(afile) : afile[l]["question_id"] # k

\* Entry i of the questions file cannot be turned into a record.
Fatal(i) ==
  IF Annotated
    THEN \/ qfile[i]["question_id"] \notin AnnIds
         \/ DOMAIN qfile[i] # QuestionKeys
         \/ DOMAIN afile[LastIndex(qfile[i]["question_id"])] # AnnotationKeys
    ELSE "image_id" \notin DOMAIN qfile[i]

FatalEntries == {i \in 1..Len(qfile) : Fatal(i)}

Min(S) == CHOOSE m \in S : \A n \in S : m <= n

DigitOf(c) ==
  CASE c = "0" -> 0 [] c = "1" -> 1 [] c = "2" -> 2 [] c = "3" -> 3
    [] c = "4" -> 4 [] c = "5" -> 5 [] c = "6" -> 6 [] c = "7" -> 7
    [] c = "8" -> 8 [] c = "9" -> 9

RECURSIVE StripZeros(_)
StripZeros(d) == IF Len(d) > 1 /\ d[1] = 0 THEN StripZeros(Tail(d)) ELSE d

\* The int a decimal text denotes.
ParseInt(cs) == StripZeros([i \in 1..Len(cs) |-> DigitOf(cs[i])])

RECURSIVE Render(_)
Render(pieces) ==
  IF pieces = <<>> THEN "" ELSE Head(pieces) \o Render(Tail(pieces))

\* The digits of the file name of an image path.
IdText(image) == SubSeq(image.file, 4, Len(image.file) - 1)

\* Everything of an image path but the width of its digits.
PathShape(r) ==
  /\ r["image"].dir = kwargs.images_path.parts
  /\ Len(r["image"].file) >= 5
  /\ r["image"].file[1] = "COCO_"
  /\ r["image"].file[2] = SUB_FOLDER_OR_FILE_NAME["images"][split]
  /\ r["image"].file[3] = "_"
  /\ r["image"].file[Len(r["image"].file)] = ".jpg"

(***************************************************************************)
(* Properties.                                                             *)
(***************************************************************************)

\* C1: a pass never emits more records than the questions file has entries,
\* and a pass that runs to completion has emitted exactly one record per
\* entry, whatever the number of annotations.
C1_EmittedCount ==
  /\ Len(out) <= Len(qfile)
  /\ pc = "done" => Len(out) = Len(qfile)

C1_Witness ==
  /\ pc = "done"
  /\ Annotated
  /\ Len(out) = MaxQuestions
  /\ Len(afile) < Len(qfile)

\* C2: the i-th emitted pair comes from the i-th entry of the questions file,
\* in both branches and whatever the order of the annotations file.
C2_QuestionOrder ==
  \A i \in 1..Len(out) :
    /\ out[i].key = qfile[i]["question_id"]
    /\ out[i].record["question"] = qfile[i]["question"]

C2_Witness ==
  /\ Annotated
  /\ Len(out) = 2
  /\ Len(afile) = 2
  /\ qfile[1]["question_id"] # qfile[2]["question_id"]
  /\ qfile[1]["question"] # qfile[2]["question"]
  /\ afile[1]["question_id"] = qfile[2]["question_id"]
  /\ afile[2]["question_id"] = qfile[1]["question_id"]

\* C3: with annotations, the key of an emitted pair, the question_id of its
\* record and the question_id of its source question are equal, and the
\* annotation fields of the record are those of an annotation of the file
\* that has this question_id.
C3_JoinById ==
  Annotated =>
    \A i \in 1..Len(out) :
      /\ out[i].key = out[i].record["question_id"]
      /\ out[i].key = qfile[i]["question_id"]
      /\ \E j \in 1..Len(afile) :
           /\ DOMAIN afile[j] = AnnotationKeys
           /\ afile[j]["question_id"] = out[i].key
           /\ \A k \in AnnotationKeys : out[i].record[k] = afile[j][k]

C3_Witness ==
  /\ Annotated
  /\ Len(out) = 2
  /\ out[1].key # out[2].key
  /\ out[1].record["multiple_choice_answer"]
       # out[2].record["multiple_choice_answer"]

\* C4: for "test" and "test-dev" the annotations path is None and every
\* emitted record has the four annotation fields present and None; for
\* "train" and "val" the annotations path is not None.
C4_TestSplitsAbsent ==
  pc # "new" =>
    /\ split \in {"test", "test-dev"} =>
         /\ kwargs.annotations_path.isNone
         /\ \A i \in 1..Len(out) : \A k \in AnnotationFields :
              /\ k \in DOMAIN out[i].record
              /\ out[i].record[k] = None
    /\ split \in {"train", "val"} => ~kwargs.annotations_path.isNone

C4_Witness ==
  /\ split = "test-dev"
  /\ pc = "done"
  /\ Len(out) = MaxQuestions
  /\ out[1].record["answers"] = None

\* C5: in any split, with or without annotations, no record is emitted for a
\* questions entry whose field set is not {image_id, question, question_id}.
C5_BadQuestionNeverEmitted ==
  \A i \in 1..Len(out) : DOMAIN qfile[i] = QuestionKeys

\* C6: with annotations, a question whose question_id has no annotation makes
\* the pass fail with a lookup error on reaching it: no record for it or for
\* a later question is emitted, and the pass does not go past it.
C6_MissingAnnotationFails ==
  Built =>
    \A i \in 1..Len(qfile) :
      qfile[i]["question_id"] \notin AnnIds =>
        /\ Len(out) < i
        /\ idx <= i
        /\ pc # "done"
        /\ (pc = "failed" /\ idx = i) => err = "KeyError"

C6_Witness ==
  /\ Built
  /\ pc = "failed"
  /\ err = "KeyError"
  /\ idx = 2
  /\ Len(out) = 1
  /\ qfile[2]["question_id"] \notin AnnIds

\* C7: with annotations, a record is emitted only if the annotation looked up
\* for its question has exactly the six annotation fields; otherwise the pass
\* fails at that question before anything is merged into it or emitted.
C7_AnnotationFieldSet ==
  Built =>
    /\ \A i \in 1..Len(out) : DOMAIN qa[out[i].key] = AnnotationKeys
    /\ \A i \in 1..Len(qfile) :
         (/\ qfile[i]["question_id"] \in DOMAIN qa
          /\ DOMAIN qa[qfile[i]["question_id"]] # AnnotationKeys) =>
           /\ Len(out) < i
           /\ idx <= i
           /\ pc # "done"
           /\ questions[i] = qfile[i]

C7_Witness ==
  /\ Built
  /\ pc = "failed"
  /\ err = "AssertionError"
  /\ idx = 2
  /\ Len(out) = 1
  /\ DOMAIN qfile[2] = QuestionKeys
  /\ DOMAIN qa[qfile[2]["question_id"]] # AnnotationKeys

\* C8 as stated: a pass has either emitted a record for every question or,
\* having hit a fatal error, emitted no record at all.
C8_NoPartialOutput ==
  /\ pc = "done" => Len(out) = Len(qfile)
  /\ pc = "failed" => out = <<>>

\* C8 as amended: a pass that has ended has either emitted a record for every
\* question or, having hit a fatal error, emitted a record for exactly the
\* questions that precede the first one that cannot be processed (none when
\* building the mapping fails), and for no question from that one on.
C8_PrefixOutput ==
  pc \in {"done", "failed"} =>
    IF Annotated /\ BuildRaises(afile)
      THEN pc = "failed" /\ out = <<>>
      ELSE IF FatalEntries = {}
        THEN pc = "done" /\ Len(out) = Len(qfile)
        ELSE /\ pc = "failed"
             /\ Len(out) = Min(FatalEntries) - 1
             /\ idx = Min(FatalEntries)

C8_Witness ==
  /\ pc = "failed"
  /\ Len(out) = 1
  /\ Len(qfile) = 2

\* C9 as stated: the image of an emitted record is images_dir joined with
\* "COCO_" + basename + "_" + exactly 12 digits + ".jpg", the digits being
\* the record's image_id left-padded with zeros.
C9_ImagePathTwelveDigits ==
  \A i \in 1..Len(out) :
    /\ PathShape(out[i].record)
    /\ Len(IdText(out[i].record["image"])) = 12
    /\ ParseInt(IdText(out[i].record["image"])) = out[i].record["image_id"]

\* C9 as amended: the digits are the decimal text of the record's image_id
\* left-padded with zeros to a width of at least 12: exactly 12 characters
\* when the text has at most 12, and the text in full, neither padded nor
\* truncated, when it has more.
C9_ImagePath ==
  \A i \in 1..Len(out) :
    /\ PathShape(out[i].record)
    /\ Len(IdText(out[i].record["image"])) =
         IF Len(out[i].record["image_id"]) <= 12
           THEN 12 ELSE Len(out[i].record["image_id"])
    /\ ParseInt(IdText(out[i].record["image"])) = out[i].record["image_id"]

C9_Witness ==
  /\ split = "val"
  /\ Len(out) = 2
  /\ qfile[1]["image_id"] = <<4, 2>>
  /\ out[1].record["image_id"] = <<9>>
  /\ Render(out[1].record["image"].file) = "COCO_val2014_000000000009.jpg"
  /\ Len(out[2].record["image_id"]) = 13

\* C10: no question is processed before the mapping is built, the mapping
\* holds for each question_id the last entry of the annotations file with
\* that question_id and stays that way, and an emitted record carries the
\* fields of that last entry.
C10_LastWriteWins ==
  /\ pc \in {"new", "start"} => out = <<>> /\ idx = 1
  /\ Built =>
       /\ DOMAIN qa = AnnIds
       /\ \A k \in AnnIds : qa[k] = afile[LastIndex(k)]
       /\ \A i \in 1..Len(out) : \A k \in AnnotationKeys :
            out[i].record[k] = afile[LastIndex(out[i].key)][k]

C10_Witness ==
  /\ Built
  /\ Len(out) >= 1
  /\ Len(afile) = 2
  /\ afile[1]["question_id"] = out[1].key
  /\ afile[2]["question_id"] = out[1].key
  /\ afile[1]["multiple_choice_answer"] # afile[2]["multiple_choice_answer"]
  /\ out[1].record["multiple_choice_answer"] = afile[2]["multiple_choice_answer"]

====
